---- MODULE Spec2Model ----
(***************************************************************************)
(* Reconciliation transform of TST-2280: pandas_framework.py and           *)
(* Apache_framework.py.  Each script builds a DataProcessor and calls      *)
(* process_data, which runs its stages in a fixed order; every stage wraps *)
(* its body in try/except Exception, logs, and returns.                    *)
(*                                                                         *)
(* A DataFrame is [columns |-> set of names, rows |-> sequence of records  *)
(* over those names].  Index levels produced by groupby/pivot_table are    *)
(* kept as ordinary columns (both scripts call reset_index() before the    *)
(* keys are used as columns).                                              *)
(***************************************************************************)
EXTENDS Integers, Sequences, FiniteSets, TLC

VARIABLES variant, dataset1, dataset2, self, local_df_merged, pc,
          attempted, raised, result_file, saved, run

vars == <<variant, dataset1, dataset2, self, local_df_merged, pc,
          attempted, raised, result_file, saved, run>>

---------------------------------------------------------------------------
(* Bounds and input domains *)

MaxRows == 3
MaxRuns == 2

LegalEntities == <<"E1", "E2">>
CounterParties == <<"C1", "C2">>
StatusValues == <<"ACCR", "ARAP", "OTHER">>
Values == {10}
Ratings == {3, 7}
Tiers == <<"Tier1", "Tier2">>

Range(s) == {s[i] : i \in 1..Len(s)}

\* Missing cell: numeric columns hold NaN, the object column tier holds "NaN".
NaN == -1
StringColumns == {"legal_entity", "counter_party", "status", "tier"}
NullOf(c) == IF c \in StringColumns THEN "NaN" ELSE NaN
ZeroOf(c) == IF c \in StringColumns THEN "0" ELSE 0

KeyColumns == {"legal_entity", "counter_party"}
Dataset1Columns == {"invoice_id", "legal_entity", "counter_party", "status", "value", "rating"}
Dataset2Columns == {"counter_party", "tier"}
FinalColumns == {"legal_entity", "counter_party", "tier", "ratings", "arap_value", "accr_value"}

---------------------------------------------------------------------------
(* DataFrame primitives *)

Frame(cols, rows) == [columns |-> cols, rows |-> rows]
Unset == [unset |-> TRUE]
hasattr(x) == "columns" \in DOMAIN x

Restrict(r, cols) == [c \in cols |-> r[c]]

RECURSIVE Concat(_)
Concat(ss) == IF ss = <<>> THEN <<>> ELSE Head(ss) \o Concat(Tail(ss))

Max2(a, b) == IF a >= b THEN a ELSE b

\* Series.sum(): missing cells are skipped, the sum of nothing is 0.
RECURSIVE SumSkipNa(_, _)
SumSkipNa(rows, c) ==
    IF rows = <<>> THEN 0
    ELSE (IF Head(rows)[c] = NaN THEN 0 ELSE Head(rows)[c]) + SumSkipNa(Tail(rows), c)

\* Series.max(): missing cells are skipped, the max of nothing is NaN.
RECURSIVE MaxSkipNa(_, _)
MaxSkipNa(rows, c) ==
    IF rows = <<>> THEN NaN
    ELSE LET h == Head(rows)[c]
             t == MaxSkipNa(Tail(rows), c)
         IN IF h = NaN THEN t ELSE IF t = NaN THEN h ELSE Max2(h, t)

\* df.drop(col, axis=1); KeyError when the column is absent.
CanDrop(df, cols) == cols \subseteq df.columns
DropColumns(df, cols) ==
    Frame(df.columns \ cols,
          [i \in 1..Len(df.rows) |-> Restrict(df.rows[i], df.columns \ cols)])

\* Alternative filter: rows with an unrecognised status stay in every subset.
FilterStatusLoose(df, s) ==
    Frame(df.columns, SelectSeq(df.rows, LAMBDA r : r.status = s \/ r.status = "OTHER"))

\* df[df['status'] == s]  and  df.query("status == 's'")
FilterStatus(df, s) == Frame(df.columns, SelectSeq(df.rows, LAMBDA r : r.status = s))

\* df.rename(columns=m): names that are not columns are ignored.
RenameColumns(df, m) ==
    LET new(c) == IF c \in DOMAIN m THEN m[c] ELSE c
        cols == {new(c) : c \in df.columns}
        old(n) == CHOOSE c \in df.columns : new(c) = n
    IN Frame(cols, [i \in 1..Len(df.rows) |-> [n \in cols |-> df.rows[i][old(n)]]])

\* df[[c1, ...]]; KeyError when a column is absent.
CanSelect(df, cols) == cols \subseteq df.columns
SelectColumns(df, cols) ==
    Frame(cols, [i \in 1..Len(df.rows) |-> Restrict(df.rows[i], cols)])

\* Alternative: missing cells are left as they are.
fillna_skipped(df) == df

\* df.fillna(0, inplace=True): every missing cell of every column.
fillna(df) ==
    Frame(df.columns,
          [i \in 1..Len(df.rows) |->
              [c \in df.columns |->
                  IF df.rows[i][c] = NullOf(c) THEN ZeroOf(c) ELSE df.rows[i][c]]])

\* Alternative row maximum: a missing operand makes the maximum missing.
RowMaxStrict(r, a, b) ==
    IF r[a] = NaN \/ r[b] = NaN THEN NaN ELSE Max2(r[a], r[b])

\* df[[a, b]].max(axis=1): row-wise, missing cells skipped.
RowMax(r, a, b) ==
    IF r[a] = NaN THEN r[b] ELSE IF r[b] = NaN THEN r[a] ELSE Max2(r[a], r[b])

\* df[new] = df[[a, b]].max(axis=1)
AssignRowMax(df, new, a, b) ==
    Frame(df.columns \cup {new},
          [i \in 1..Len(df.rows) |->
              [c \in df.columns \cup {new} |->
                  IF c = new THEN RowMax(df.rows[i], a, b) ELSE df.rows[i][c]]])

---------------------------------------------------------------------------
(* Group-by, merge, join, pivot_table *)

\* Every (legal_entity, counter_party) key in lexicographic order: groupby
\* (sort=True) and an outer merge both emit their keys in this order.
KeyOrder ==
    [i \in 1..(Len(LegalEntities) * Len(CounterParties)) |->
        [legal_entity |-> LegalEntities[((i - 1) \div Len(CounterParties)) + 1],
         counter_party |-> CounterParties[((i - 1) % Len(CounterParties)) + 1]]]

KeyOf(r) == Restrict(r, KeyColumns)

\* df.groupby(['legal_entity', 'counter_party']).agg({'value': 'sum', 'rating': 'max'})
CanGroup(df) == (KeyColumns \cup {"value", "rating"}) \subseteq df.columns
groupby_agg(df) ==
    LET keys == SelectSeq(KeyOrder,
                          LAMBDA k : \E i \in 1..Len(df.rows) : KeyOf(df.rows[i]) = k)
        grp(k) == SelectSeq(df.rows, LAMBDA r : KeyOf(r) = k)
    IN Frame(KeyColumns \cup {"value", "rating"},
             [i \in 1..Len(keys) |->
                 [legal_entity |-> keys[i].legal_entity,
                  counter_party |-> keys[i].counter_party,
                  value |-> SumSkipNa(grp(keys[i]), "value"),
                  rating |-> MaxSkipNa(grp(keys[i]), "rating")]])

NullRow(cols) == [c \in cols |-> NullOf(c)]

\* pd.merge(left, right, on=on, how=how): non-key columns present on both
\* sides get the suffixes _x and _y.  how = "outer" orders the result by
\* key; "inner" and "left" keep the order of the left rows.  A key matched
\* by several rows of the other side yields one row per match.
CanMerge(left, right, on) == on \subseteq left.columns /\ on \subseteq right.columns
merge(left, right, on, how) ==
    LET overlap == (left.columns \cap right.columns) \ on
        lname(c) == IF c \in overlap THEN c \o "_x" ELSE c
        rname(c) == IF c \in overlap THEN c \o "_y" ELSE c
        lnames == {lname(c) : c \in left.columns \ on}
        rnames == {rname(c) : c \in right.columns \ on}
        cols == on \cup lnames \cup rnames
        lold(n) == CHOOSE c \in left.columns \ on : lname(c) = n
        rold(n) == CHOOSE c \in right.columns \ on : rname(c) = n
        out(key, l, r) ==
            [n \in cols |-> IF n \in on THEN key[n]
                            ELSE IF n \in lnames THEN l[lold(n)] ELSE r[rold(n)]]
        nullL == NullRow(left.columns)
        nullR == NullRow(right.columns)
        matchL(key) == SelectSeq(left.rows, LAMBDA l : Restrict(l, on) = key)
        matchR(key) == SelectSeq(right.rows, LAMBDA r : Restrict(r, on) = key)
        forKey(key) ==
            LET L == matchL(key)
                R == matchR(key)
            IN IF R = <<>> THEN [j \in 1..Len(L) |-> out(key, L[j], nullR)]
               ELSE IF L = <<>> THEN [j \in 1..Len(R) |-> out(key, nullL, R[j])]
               ELSE [j \in 1..(Len(L) * Len(R)) |->
                        out(key, L[((j - 1) \div Len(R)) + 1], R[((j - 1) % Len(R)) + 1])]
        forLeft(l) ==
            LET key == Restrict(l, on)
                R == matchR(key)
            IN IF R = <<>> THEN (IF how = "left" THEN <<out(key, l, nullR)>> ELSE <<>>)
               ELSE [j \in 1..Len(R) |-> out(key, l, R[j])]
    IN Frame(cols,
             IF how = "outer"
             THEN Concat([i \in 1..Len(KeyOrder) |-> forKey(KeyOrder[i])])
             ELSE Concat([i \in 1..Len(left.rows) |-> forLeft(left.rows[i])]))

\* left.join(right, on=on, how=how): the same relational join, without
\* suffixes; columns present on both sides raise ValueError.
CanJoin(left, right, on) ==
    CanMerge(left, right, on) /\ (left.columns \cap right.columns) \subseteq on
join(left, right, on, how) == merge(left, right, on, how)

\* df.pivot_table(values=['value', 'rating'], index=['legal_entity', 'counter_party'],
\*                aggfunc={'value': 'sum', 'rating': 'max'})
\* with the default dropna=True: a value column whose entries are all missing
\* (every column, when the table has no row) is not included.
pivot_table(df) ==
    LET agged == groupby_agg(df)
        kept == {c \in {"value", "rating"} :
                    \E i \in 1..Len(agged.rows) : agged.rows[i][c] # NaN}
    IN SelectColumns(agged, KeyColumns \cup kept)

---------------------------------------------------------------------------
(* The stages of DataProcessor.  Each returns the instance attributes after
   the stage and whether its try block raised (the except clause only logs).
   An attribute assigned before the raising statement stays assigned. *)

Missing == [missing |-> TRUE]
readable(f) == "columns" \in DOMAIN f

AttrNames == {"df1", "df2", "df_merged", "df_final", "df_final_1", "dataframe_1", "df"}
NewInstance == [a \in AttrNames |-> Unset]

Return(obj) == [self |-> obj, raised |-> FALSE]
Raise(obj) == [self |-> obj, raised |-> TRUE]

\* Alternative load: a failed read falls back to empty tables.
pandas_load_datasets_fallback(obj, d1, d2) ==
    IF readable(d1) /\ readable(d2) THEN Return([obj EXCEPT !.df1 = d1, !.df2 = d2])
    ELSE Raise([obj EXCEPT !.df1 = Frame(Dataset1Columns, <<>>),
                           !.df2 = Frame(Dataset2Columns, <<>>)])

pandas_load_datasets(obj, d1, d2) ==
    IF ~readable(d1) THEN Raise(obj)
    ELSE IF ~readable(d2) THEN Raise([obj EXCEPT !.df1 = d1])
    ELSE Return([obj EXCEPT !.df1 = d1, !.df2 = d2])

pandas_drop_invoice_id(obj) ==
    IF ~hasattr(obj.df1) THEN Raise(obj)
    ELSE IF ~CanDrop(obj.df1, {"invoice_id"}) THEN Raise(obj)
    ELSE Return([obj EXCEPT !.df1 = DropColumns(obj.df1, {"invoice_id"})])

\* Alternative transform: the two aggregates are merged with an inner join.
pandas_df_merged_inner(df1) ==
    LET arap_df == FilterStatus(df1, "ARAP")
        accr_df == FilterStatus(df1, "ACCR")
        arap_df_group == RenameColumns(groupby_agg(arap_df), [value |-> "arap_value"])
        accr_df_group == RenameColumns(groupby_agg(accr_df), [value |-> "accr_value"])
        merged == merge(arap_df_group, accr_df_group, KeyColumns, "inner")
    IN RenameColumns(merged, [rating_x |-> "max_rating_x", rating_y |-> "max_rating_y"])

pandas_df_merged(df1) ==
    LET arap_df == FilterStatus(df1, "ARAP")
        accr_df == FilterStatus(df1, "ACCR")
        arap_df_group == RenameColumns(groupby_agg(arap_df), [value |-> "arap_value"])
        accr_df_group == RenameColumns(groupby_agg(accr_df), [value |-> "accr_value"])
        merged == merge(arap_df_group, accr_df_group, KeyColumns, "outer")
    IN RenameColumns(merged, [rating_x |-> "max_rating_x", arap_value_x |-> "arap_value",
                              arap_value_y |-> "arap_value", rating_y |-> "max_rating_y"])

pandas_apply_data_transformation(obj) ==
    IF ~hasattr(obj.df1) THEN Raise(obj)
    ELSE IF "status" \notin obj.df1.columns \/ ~CanGroup(obj.df1) THEN Raise(obj)
    ELSE Return([obj EXCEPT !.df_merged = pandas_df_merged(obj.df1)])

pandas_merge_with_dataset2(obj) ==
    IF ~hasattr(obj.df_merged) \/ ~hasattr(obj.df2) THEN Raise(obj)
    ELSE IF ~CanMerge(obj.df_merged, obj.df2, {"counter_party"}) THEN Raise(obj)
    ELSE LET joined == merge(obj.df_merged, obj.df2, {"counter_party"}, "inner")
         IN IF ~CanSelect(joined, {"max_rating_x", "max_rating_y"})
            THEN Raise([obj EXCEPT !.df_final = joined])
            ELSE LET filled == fillna(AssignRowMax(joined, "ratings", "max_rating_x", "max_rating_y"))
                     dropped == DropColumns(filled, {"max_rating_x", "max_rating_y"})
                 IN IF ~CanSelect(dropped, FinalColumns)
                    THEN Raise([obj EXCEPT !.df_final = filled, !.df_final_1 = dropped])
                    ELSE Return([obj EXCEPT !.df_final = filled,
                                          !.df_final_1 = SelectColumns(dropped, FinalColumns)])

\* eager: a read error of dataset2 surfaces when the read transform is applied
\* (line 49) rather than when the frame is collected (line 51).
beam_load_dataframes(obj, d1, d2, eager) ==
    IF ~readable(d1) THEN Raise(obj)
    ELSE IF ~readable(d2) THEN (IF eager THEN Raise(obj)
                                ELSE Raise([obj EXCEPT !.dataframe_1 = d1]))
    ELSE Return([obj EXCEPT !.dataframe_1 = d1, !.df2 = d2])

beam_drop_invoice_id(obj) ==
    IF ~hasattr(obj.dataframe_1) THEN Raise(obj)
    ELSE IF ~CanDrop(obj.dataframe_1, {"invoice_id"}) THEN Raise(obj)
    ELSE Return([obj EXCEPT !.df = DropColumns(obj.dataframe_1, {"invoice_id"})])

beam_df_merged(df) ==
    LET arap_df == FilterStatus(df, "ARAP")
        accr_df == FilterStatus(df, "ACCR")
        arap_df_group == RenameColumns(pivot_table(arap_df),
                                       [value |-> "arap_value", rating |-> "rating_x"])
        accr_df_group == RenameColumns(pivot_table(accr_df),
                                       [value |-> "accr_value", rating |-> "rating_y"])
    IN join(arap_df_group, accr_df_group, KeyColumns, "outer")

beam_apply_data_transformation(obj) ==
    IF ~hasattr(obj.df) THEN Raise(obj)
    ELSE IF "status" \notin obj.df.columns \/ ~CanGroup(obj.df) THEN Raise(obj)
    ELSE IF ~hasattr(obj.df2) THEN Raise(obj)
    ELSE IF ~CanJoin(beam_df_merged(obj.df), obj.df2, {"counter_party"}) THEN Raise(obj)
    ELSE LET df_final == join(beam_df_merged(obj.df), obj.df2, {"counter_party"}, "left")
         IN IF ~CanSelect(df_final, {"rating_x", "rating_y"}) THEN Raise(obj)
            ELSE LET filled == fillna(AssignRowMax(df_final, "ratings", "rating_x", "rating_y"))
                     dropped == DropColumns(filled, {"rating_x", "rating_y"})
                 IN IF ~CanSelect(dropped, FinalColumns)
                    THEN Raise([obj EXCEPT !.df_final_1 = dropped])
                    ELSE Return([obj EXCEPT !.df_final_1 = SelectColumns(dropped, FinalColumns)])

\* save_result (both scripts): AttributeError before to_csv when df_final_1
\* was never assigned; otherwise the table is written.
save_result(obj) == IF ~hasattr(obj.df_final_1) THEN Raise(obj) ELSE Return(obj)

\* process_data: the calls follow one another unconditionally.
StageOrder(v) ==
    IF v = "pandas" THEN <<"load", "drop", "transform", "merge", "save">>
    ELSE <<"load", "drop", "transform", "save">>

\* Alternative sequencing: a stage that raises ends the run.
process_data_abort(v, stage, didRaise) ==
    LET order == StageOrder(v)
        i == CHOOSE j \in 1..Len(order) : order[j] = stage
    IN IF didRaise \/ i = Len(order) THEN "done" ELSE order[i + 1]

process_data(v, stage, didRaise) ==
    LET order == StageOrder(v)
        i == CHOOSE j \in 1..Len(order) : order[j] = stage
    IN IF i = Len(order) THEN "done" ELSE order[i + 1]

---------------------------------------------------------------------------
(* Input files *)

Idx(seq, x) == CHOOSE i \in 1..Len(seq) : seq[i] = x

\* Keys (E1,C1), (E1,C2) and (E2,C1): two keys share a legal entity and two
\* share a counter party.
DataRows ==
    {r \in [legal_entity : Range(LegalEntities), counter_party : Range(CounterParties),
            status : Range(StatusValues), value : Values, rating : Ratings] :
        r.legal_entity = LegalEntities[1] \/ r.counter_party = CounterParties[1]}

RowRank(r) ==
    (((Idx(LegalEntities, r.legal_entity) * 10 + Idx(CounterParties, r.counter_party)) * 10
        + Idx(StatusValues, r.status)) * 100 + r.value) * 100 + r.rating

\* No stage depends on the order of the rows of dataset1 (they are only
\* filtered and grouped), so its rows are enumerated in one order.
RowLists ==
    {s \in UNION {[1..n -> DataRows] : n \in 0..MaxRows} :
        \A i \in 1..(Len(s) - 1) : RowRank(s[i]) <= RowRank(s[i + 1])}

Dataset1Frame(rows) ==
    Frame(Dataset1Columns,
          [i \in 1..Len(rows) |->
              [c \in Dataset1Columns |-> IF c = "invoice_id" THEN i ELSE rows[i][c]]])

RefRowOrder ==
    <<[counter_party |-> "C1", tier |-> "Tier1"],
      [counter_party |-> "C1", tier |-> "Tier2"],
      [counter_party |-> "C2", tier |-> "Tier2"]>>

\* Reference tables: any selection of reference rows, so a counter party may
\* have no row, one row, or several rows with different tiers.
Dataset2Frame(S) == Frame(Dataset2Columns, SelectSeq(RefRowOrder, LAMBDA r : r \in S))

Dataset1Files == {Dataset1Frame(rows) : rows \in RowLists}
Dataset2Files == {Dataset2Frame(S) : S \in SUBSET Range(RefRowOrder)}

\* The scenario of the specification's section 8 and a one-row dataset.
ScenarioA ==
    <<[legal_entity |-> "E1", counter_party |-> "C1", status |-> "ARAP", value |-> 100, rating |-> 3],
      [legal_entity |-> "E1", counter_party |-> "C1", status |-> "ACCR", value |-> 50, rating |-> 5],
      [legal_entity |-> "E1", counter_party |-> "C2", status |-> "ARAP", value |-> 10, rating |-> 2]>>
ScenarioB ==
    {[counter_party |-> "C1", tier |-> "Tier1"], [counter_party |-> "C2", tier |-> "Tier2"]}
SingleA ==
    <<[legal_entity |-> "E2", counter_party |-> "C1", status |-> "ACCR", value |-> 10, rating |-> 7]>>
SingleB == {[counter_party |-> "C1", tier |-> "Tier2"]}

\* Files as a run may find them: missing or unreadable, well formed, or
\* lacking a column the stages name.
FaultyDataset1Files ==
    {Missing}
    \cup {Dataset1Frame(rows) : rows \in {ScenarioA, SingleA}}
    \cup {DropColumns(Dataset1Frame(rows), {"invoice_id"}) : rows \in {ScenarioA, SingleA}}
FaultyDataset2Files ==
    {Missing}
    \cup {Dataset2Frame(S) : S \in {ScenarioB, SingleB}}
    \cup {DropColumns(Dataset2Frame(S), {"tier"}) : S \in {ScenarioB, SingleB}}

\* The whole of process_data on a new instance: the table save_result writes
\* (Missing when it writes none) and whether any stage raised.
run_pandas(d1, d2) ==
    LET a == pandas_load_datasets(NewInstance, d1, d2)
        b == pandas_drop_invoice_id(a.self)
        c == pandas_apply_data_transformation(b.self)
        d == pandas_merge_with_dataset2(c.self)
        e == save_result(d.self)
    IN [result |-> IF e.raised THEN Missing ELSE d.self.df_final_1,
        raised |-> a.raised \/ b.raised \/ c.raised \/ d.raised \/ e.raised]

run_beam(d1, d2) ==
    LET a == beam_load_dataframes(NewInstance, d1, d2, TRUE)
        b == beam_drop_invoice_id(a.self)
        c == beam_apply_data_transformation(b.self)
        e == save_result(c.self)
    IN [result |-> IF e.raised THEN Missing ELSE c.self.df_final_1,
        raised |-> a.raised \/ b.raised \/ c.raised \/ e.raised]

run_variant(v, d1, d2) == IF v = "pandas" THEN run_pandas(d1, d2) ELSE run_beam(d1, d2)

---------------------------------------------------------------------------
(* State machine: one DataProcessor instance executing process_data *)

Variants == {"pandas", "beam"}

Start ==
    /\ variant \in Variants
    /\ self = NewInstance
    /\ local_df_merged = Unset
    /\ pc = "load"
    /\ attempted = <<>>
    /\ raised = {}
    /\ result_file = Missing
    /\ saved = FALSE
    /\ run = 1

Init ==
    /\ dataset1 \in Dataset1Files
    /\ dataset2 \in Dataset2Files
    /\ Start

InitFaults ==
    /\ dataset1 \in FaultyDataset1Files
    /\ dataset2 \in FaultyDataset2Files
    /\ Start

\* One stage call of process_data with outcome res.
Stage(stage, res) ==
    /\ pc = stage
    /\ self' = res.self
    /\ attempted' = Append(attempted, stage)
    /\ raised' = IF res.raised THEN raised \cup {stage} ELSE raised
    /\ pc' = process_data(variant, stage, res.raised)
    /\ UNCHANGED <<variant, dataset1, dataset2, run>>

call_pandas_load_datasets ==
    /\ variant = "pandas"
    /\ Stage("load", pandas_load_datasets(self, dataset1, dataset2))
    /\ UNCHANGED <<local_df_merged, result_file, saved>>

call_pandas_drop_invoice_id ==
    /\ variant = "pandas"
    /\ Stage("drop", pandas_drop_invoice_id(self))
    /\ UNCHANGED <<local_df_merged, result_file, saved>>

call_pandas_apply_data_transformation ==
    /\ variant = "pandas"
    /\ Stage("transform", pandas_apply_data_transformation(self))
    /\ UNCHANGED <<local_df_merged, result_file, saved>>

call_pandas_merge_with_dataset2 ==
    /\ variant = "pandas"
    /\ Stage("merge", pandas_merge_with_dataset2(self))
    /\ UNCHANGED <<local_df_merged, result_file, saved>>

call_beam_load_dataframes ==
    /\ variant = "beam"
    /\ \E eager \in BOOLEAN : Stage("load", beam_load_dataframes(self, dataset1, dataset2, eager))
    /\ UNCHANGED <<local_df_merged, result_file, saved>>

call_beam_drop_invoice_id ==
    /\ variant = "beam"
    /\ Stage("drop", beam_drop_invoice_id(self))
    /\ UNCHANGED <<local_df_merged, result_file, saved>>

\* local_df_merged observes the handler's local variable df_merged.
call_beam_apply_data_transformation ==
    /\ variant = "beam"
    /\ Stage("transform", beam_apply_data_transformation(self))
    /\ local_df_merged' =
          IF hasattr(self.df) /\ "status" \in self.df.columns /\ CanGroup(self.df)
          THEN beam_df_merged(self.df) ELSE Unset
    /\ UNCHANGED <<result_file, saved>>

call_save_result ==
    /\ Stage("save", save_result(self))
    /\ result_file' = IF save_result(self).raised THEN result_file ELSE self.df_final_1
    /\ saved' = ~save_result(self).raised
    /\ UNCHANGED local_df_merged

\* process_data called again on the same instance, after the files changed.
call_process_data_again ==
    /\ pc = "done"
    /\ run < MaxRuns
    /\ dataset1' \in FaultyDataset1Files
    /\ dataset2' \in FaultyDataset2Files
    /\ pc' = "load"
    /\ attempted' = <<>>
    /\ raised' = {}
    /\ saved' = FALSE
    /\ run' = run + 1
    /\ UNCHANGED <<variant, self, local_df_merged, result_file>>

Stages ==
    \/ call_pandas_load_datasets
    \/ call_pandas_drop_invoice_id
    \/ call_pandas_apply_data_transformation
    \/ call_pandas_merge_with_dataset2
    \/ call_beam_load_dataframes
    \/ call_beam_drop_invoice_id
    \/ call_beam_apply_data_transformation
    \/ call_save_result

Next == Stages

NextFaults == Stages \/ call_process_data_again

Spec == Init /\ [][Next]_vars

\* process_data is straight-line code: once called it goes on to its next
\* call until it returns.  Every step of Stages is a step of Continue, and
\* Continue is enabled exactly when a stage call is pending.
Continue == \E didRaise \in BOOLEAN : pc # "done" /\ pc' = process_data(variant, pc, didRaise)

SpecFaults == InitFaults /\ [][NextFaults]_vars /\ WF_pc(Continue)

---------------------------------------------------------------------------
(* Properties.  Expected values are computed from the rows of dataset1 and
   dataset2 as read from disk, not from the intermediate tables. *)

KnownStatuses == {"ARAP", "ACCR"}

RowsOf(f) == IF readable(f) THEN {f.rows[i] : i \in 1..Len(f.rows)} ELSE {}
Indices(f) == 1..Len(f.rows)

\* Keys of dataset1 with at least one row of the given statuses.
KeysWith(ss) == {KeyOf(r) : r \in {x \in RowsOf(dataset1) : x.status \in ss}}
ActiveKeys == KeysWith(KnownStatuses)

CountRows(f, k) == Cardinality({i \in Indices(f) : KeyOf(f.rows[i]) = k})

RECURSIVE ExpectedSum(_, _, _)
ExpectedSum(rows, k, st) ==
    IF rows = <<>> THEN 0
    ELSE (IF KeyOf(Head(rows)) = k /\ Head(rows).status = st THEN Head(rows).value ELSE 0)
         + ExpectedSum(Tail(rows), k, st)

ExpectedRating(k) ==
    LET S == {r.rating : r \in {x \in RowsOf(dataset1) :
                                    KeyOf(x) = k /\ x.status \in KnownStatuses}}
    IN IF S = {} THEN NaN ELSE CHOOSE m \in S : \A x \in S : x <= m

ReferenceParties == {r.counter_party : r \in RowsOf(dataset2)}

Completed == pc = "done" /\ raised = {}

\* C1: after process_data ran with no stage raising, every (legal_entity,
\* counter_party) pair with an ARAP or ACCR row in dataset1 appears in exactly
\* one row of the output table.
C1_EveryPairExactlyOnce ==
    Completed => \A k \in ActiveKeys : CountRows(result_file, k) = 1

\* C2: when a stage of process_data raises, the run aborts and the save stage
\* writes no result file.
C2_FailureWritesNothing ==
    (pc = "done" /\ raised # {}) => ~saved

\* C3: in every output row, ratings is the maximum rating over the rows of
\* dataset1 with that key and status ARAP or ACCR; a key present in only one
\* status subset takes the rating of that subset.
C3_RatingsIsMaxOverBothSubsets ==
    (pc = "done" /\ saved) =>
        \A i \in Indices(result_file) :
            /\ KeyOf(result_file.rows[i]) \in ActiveKeys
            /\ result_file.rows[i].ratings = ExpectedRating(KeyOf(result_file.rows[i]))

C3_Witness ==
    /\ pc = "done" /\ saved /\ variant = "beam"
    /\ \E i \in Indices(result_file) :
          /\ KeyOf(result_file.rows[i]) \in KeysWith({"ARAP"}) \ KeysWith({"ACCR"})
          /\ result_file.rows[i].ratings = 7
    /\ \E i \in Indices(result_file) :
          /\ KeyOf(result_file.rows[i]) \in KeysWith({"ARAP"}) \cap KeysWith({"ACCR"})
          /\ result_file.rows[i].ratings = 7

\* C4: in every output row, arap_value is the sum of value over the ARAP rows
\* of its key and accr_value the sum over the ACCR rows; a key with no row in
\* one subset gets 0 in that subset's column.
C4_ValuesAreSubsetSums ==
    (pc = "done" /\ saved) =>
        \A i \in Indices(result_file) :
            LET row == result_file.rows[i]
            IN /\ row.arap_value = ExpectedSum(dataset1.rows, KeyOf(row), "ARAP")
               /\ row.accr_value = ExpectedSum(dataset1.rows, KeyOf(row), "ACCR")

C4_Witness ==
    /\ pc = "done" /\ saved
    /\ \E i \in Indices(result_file) :
          /\ KeyOf(result_file.rows[i]) \in KeysWith({"ARAP"}) \ KeysWith({"ACCR"})
          /\ result_file.rows[i].arap_value = 20
          /\ result_file.rows[i].accr_value = 0

\* C5: a merged pair whose counter_party has no row in dataset2 still appears
\* in the output, with a null tier (the zero fill leaves tier alone).
C5_UnmatchedPartyKeptWithNullTier ==
    (Completed /\ saved) =>
        \A k \in ActiveKeys :
            k.counter_party \notin ReferenceParties =>
                \E i \in Indices(result_file) :
                    /\ KeyOf(result_file.rows[i]) = k
                    /\ result_file.rows[i].tier = NullOf("tier")

\* C6: rows whose status is neither ARAP nor ACCR do not affect the run: the
\* output is the one computed from dataset1 without them, and every output
\* key has an ARAP or ACCR row.
WithoutOtherStatuses(f) ==
    Frame(f.columns, SelectSeq(f.rows, LAMBDA r : r.status \in KnownStatuses))

C6_OtherStatusRowsIgnored ==
    pc = "done" =>
        LET o == run_variant(variant, WithoutOtherStatuses(dataset1), dataset2)
        IN /\ saved = (o.result # Missing)
           /\ saved => result_file = o.result
           /\ saved => \A i \in Indices(result_file) :
                          KeyOf(result_file.rows[i]) \in ActiveKeys

C6_Witness ==
    /\ pc = "done" /\ saved /\ variant = "beam"
    /\ Len(result_file.rows) > 0
    /\ \E r \in RowsOf(dataset1) : r.status = "OTHER" /\ KeyOf(r) \in ActiveKeys

\* C7: on inputs where both variants complete without a stage raising, the
\* pandas variant and the Beam variant write the same set of output rows.
OtherVariant == IF variant = "pandas" THEN "beam" ELSE "pandas"

C7_VariantsAgree ==
    (Completed /\ saved) =>
        LET o == run_variant(OtherVariant, dataset1, dataset2)
        IN ~o.raised => RowsOf(result_file) = RowsOf(o.result)

\* C8: the merged table built by the transform stage holds exactly one row
\* for every key of the ARAP aggregate or the ACCR aggregate and no other
\* key; a key of only one aggregate has the other aggregate's columns null.
MergedTable == IF variant = "pandas" THEN self.df_merged ELSE local_df_merged
ArapSide == {"arap_value", "max_rating_x", "rating_x"}
AccrSide == {"accr_value", "max_rating_y", "rating_y"}

IsPrefix(s, t) == Len(s) <= Len(t) /\ \A i \in 1..Len(s) : s[i] = t[i]

C10_FailedLoadWritesNothing ==
    (run = 1 /\ "load" \in raised) =>
        /\ ~hasattr(self.df_final_1)
        /\ ~saved
        /\ result_file = Missing
        /\ pc = "done" => "save" \in raised

C10_Witness ==
    /\ run = 1 /\ pc = "done"
    /\ "load" \in raised /\ "drop" \notin raised
    /\ "save" \in raised

====
